---- MODULE Spec2Model ----
(***************************************************************************)
(* Model of the mood-to-track ranking pipeline: PlaylistRanker             *)
(* (app/core/rank.py) with the Track shape of app/core/fetcher.py and the  *)
(* MoodProfile shape of app/core/mood.py.                                  *)
(*                                                                         *)
(* Numbers: every float of the program is kept in hundredths, as an        *)
(* integer (5.0 is 500, 0.3 is 30), so the score range [0, 10] is          *)
(* 0..1000.  Binary rounding of the floats is not modelled.                *)
(* Strings: a word is a TLA+ string; a text is the sequence of its         *)
(* whitespace-separated words.                                             *)
(*                                                                         *)
(* Further down: ensure_json and generate_json (app/services/models.py),   *)
(* MoodParser.parse (app/core/mood.py), validate_rankings, and             *)
(* SpotifyDatasetFetcher.sample_tracks (app/core/fetcher.py),              *)
(* ModelManager.generate, and the ranker with a top_k of zero or below and *)
(* with permuted profiles, each with the variables of its own calls.       *)
(***************************************************************************)
EXTENDS Integers, Sequences, FiniteSets, TLC

VARIABLES
    \* ---- one call of PlaylistRanker.rank_and_explain ----
    mood,           \* mood_profile argument
    tracks,         \* tracks argument (a list)
    top_k,          \* top_k argument
    model_manager,  \* self.model_manager: "present" or None
    pc,             \* position in rank_and_explain: start, loop, calling, done, raised
    bases,          \* the base score line 35 computed for each input position
    candidates,     \* the shortlist, line 37: list of (track, base)
    ranked,         \* the list built by the loop of lines 39-45
    resps,          \* what _get_ai_ranking met for each shortlisted track
    calls,          \* input positions generate_json was invoked for, in order
    result,         \* the returned list
    \* ---- one evaluation of _calculate_base_score ----
    sMood, sTrack, sPc, sScore, sParts,
    \* ---- _calculate_base_score on two inputs that differ in one signal ----
    mIn, mOut, mPc,
    \* ---- the text a model client generated and what ensure_json made of it ----
    jText, jOut, jTier,
    \* ---- one call of MoodParser.parse ----
    pText, pOut, pPc,
    \* ---- PlaylistRanker.validate_rankings applied once and twice ----
    vIn, vOnce, vTwice, vPc,
    \* ---- calls of SpotifyDatasetFetcher.sample_tracks and the cache on disk ----
    fN, fCache, fDisk, fCalls,
    \* ---- one call of ModelManager.generate_json and its two clients ----
    gIn, gCalls, gResp, gJson, gPc

rankVars  == <<mood, tracks, top_k, model_manager, pc, bases, candidates, ranked,
               resps, calls, result>>
scoreVars == <<sMood, sTrack, sPc, sScore, sParts>>
monoVars  == <<mIn, mOut, mPc>>
textVars  == <<jText, jOut, jTier>>
parseVars == <<pText, pOut, pPc>>
valVars   == <<vIn, vOnce, vTwice, vPc>>
fetchVars == <<fN, fCache, fDisk, fCalls>>
genVars   == <<gIn, gCalls, gResp, gJson, gPc>>
extVars   == <<monoVars, textVars, parseVars, valVars, fetchVars, genVars>>
vars      == <<rankVars, scoreVars, extVars>>

(***************************************************************************)
(* Python helpers                                                          *)
(***************************************************************************)
None == "<None>"

Min2(a, b) == IF b < a THEN b ELSE a
Max2(a, b) == IF b > a THEN b ELSE a
Abs(x)     == IF x < 0 THEN -x ELSE x

\* s[:k] of a Python list, negative k counted from the end
PySliceTo(s, k) ==
    LET n == Len(s)
        e == IF k >= 0 THEN Min2(k, n) ELSE Max2(n + k, 0)
    IN  SubSeq(s, 1, e)

\* dict.get(key, default)
Get(d, key, default) == IF key \in DOMAIN d THEN d[key] ELSE default

\* x or ""
OrEmpty(x) == IF x = None THEN "" ELSE x

Range(s) == {s[i] : i \in DOMAIN s}

\* list.index(x) (0-based) of a list that holds x
IndexOf(s, x) == (CHOOSE i \in DOMAIN s : s[i] = x /\ \A j \in 1..(i - 1) : s[j] # x) - 1

\* str.lower() on the words the model uses
UpperWords ==
    [Rock |-> "rock", POP |-> "pop", Indie |-> "indie", Happy |-> "happy",
     Sunshine |-> "sunshine", Coldplay |-> "coldplay", Yellow |-> "yellow",
     Blinding |-> "blinding", Lights |-> "lights", The |-> "the", Weeknd |-> "weeknd",
     Hotel |-> "hotel", California |-> "california", Eagles |-> "eagles"]
Lower(w) == IF w \in DOMAIN UpperWords THEN UpperWords[w] ELSE w

\* k in w for two lowercase words: equal, or a proper substring
ProperSubstrings == {<<"sun", "sunshine">>, <<"hap", "happy">>, <<"rock", "rockets">>}
IsSubstring(k, w) == k = w \/ <<k, w>> \in ProperSubstrings

(***************************************************************************)
(* Scoring helpers, rank.py lines 51-107                                   *)
(***************************************************************************)
BaseStart    == 500
ScoreMax     == 1000
FeatureDflt  == 50
ProximityWeight == 200
TempoExact   == 150
TempoNear    == 50
GenreExact   == 100
GenreFamily  == 50
KeywordCap   == 100
TagWeight    == 30
TitleWeight  == 15

EnergyTargets  == [low |-> 30, medium |-> 60, high |-> 80]
ValenceTargets == [negative |-> 30, neutral |-> 50, positive |-> 70]

MatchEnergy(mood_energy, track) ==
    LET energy == Get(track.features, "energy", FeatureDflt)
        diff   == Abs(energy - Get(EnergyTargets, mood_energy, 60))
    IN  Max2(0, ProximityWeight - 2 * diff)

MatchValence(mood_valence, track) ==
    LET val  == Get(track.features, "valence", FeatureDflt)
        diff == Abs(val - Get(ValenceTargets, mood_valence, 50))
    IN  Max2(0, ProximityWeight - 2 * diff)

MoodSeq  == <<"slow", "medium", "fast">>
TrackSeq == <<"slow", "mid", "fast">>

MatchTempo(mood_tempo, track_tempo) ==
    IF mood_tempo \in Range(MoodSeq) /\ track_tempo \in Range(TrackSeq)
    THEN IF (mood_tempo = "medium" /\ track_tempo = "mid") \/ mood_tempo = track_tempo
         THEN TempoExact
         ELSE IF Abs(IndexOf(MoodSeq, mood_tempo) - IndexOf(TrackSeq, track_tempo)) = 1
              THEN TempoNear
              ELSE 0
    ELSE 0

Families ==
    ("rock" :> {"alternative", "indie", "metal", "punk"}) @@
    ("pop" :> {"dance", "electronic", "disco"}) @@
    ("hip-hop" :> {"rap", "r&b"}) @@
    ("jazz" :> {"blues", "soul", "funk"}) @@
    ("folk" :> {"country", "acoustic"})
FamilyOf(g) == Get(Families, g, {})

\* the contribution of the first mood genre that relates to the track genre
MatchGenresFirstHit(mood_genres, track_genre) ==
    IF Len(mood_genres) = 0 \/ track_genre = ""
    THEN 0
    ELSE LET low  == [i \in DOMAIN mood_genres |-> Lower(mood_genres[i])]
             hits == {i \in DOMAIN low : \/ Lower(track_genre) = low[i]
                                         \/ Lower(track_genre) \in FamilyOf(low[i])}
         IN  IF hits = {}
             THEN 0
             ELSE LET i == CHOOSE h \in hits : \A o \in hits : h <= o
                  IN  IF Lower(track_genre) = low[i] THEN GenreExact ELSE GenreFamily

MatchGenres(mood_genres, track_genre) ==
    IF Len(mood_genres) = 0 \/ track_genre = ""
    THEN 0
    ELSE LET low == [i \in DOMAIN mood_genres |-> Lower(mood_genres[i])]
         IN  IF Lower(track_genre) \in Range(low)
             THEN GenreExact
             ELSE IF \E i \in DOMAIN low : Lower(track_genre) \in FamilyOf(low[i])
                  THEN GenreFamily
                  ELSE 0

\* the keyword contribution counting the title matches of the leading
\* keywords only, up to the first keyword the title and artist do not hold
MatchKeywordsLeading(mood_keywords, track) ==
    IF Len(mood_keywords) = 0
    THEN 0
    ELSE LET kset == {Lower(mood_keywords[i]) : i \in DOMAIN mood_keywords}
             tset == {Lower(track.tags[i]) : i \in DOMAIN track.tags}
             tag_matches  == Cardinality(kset \cap tset)
             title_artist == {Lower(track.title[i]) : i \in DOMAIN track.title}
                             \cup {Lower(track.artist[i]) : i \in DOMAIN track.artist}
             Hit(i) == \E w \in title_artist : IsSubstring(Lower(mood_keywords[i]), w)
             title_matches ==
                 Cardinality({i \in DOMAIN mood_keywords : \A j \in 1..i : Hit(j)})
         IN  Min2(KeywordCap, TagWeight * tag_matches + TitleWeight * title_matches)

MatchKeywords(mood_keywords, track) ==
    IF Len(mood_keywords) = 0
    THEN 0
    ELSE LET kset == {Lower(mood_keywords[i]) : i \in DOMAIN mood_keywords}
             tset == {Lower(track.tags[i]) : i \in DOMAIN track.tags}
             tag_matches  == Cardinality(kset \cap tset)
             title_artist == {Lower(track.title[i]) : i \in DOMAIN track.title}
                             \cup {Lower(track.artist[i]) : i \in DOMAIN track.artist}
             title_matches ==
                 Cardinality({i \in DOMAIN mood_keywords :
                     \E w \in title_artist : IsSubstring(Lower(mood_keywords[i]), w)})
         IN  Min2(KeywordCap, TagWeight * tag_matches + TitleWeight * title_matches)

\* the five contributions of lines 53-57
Contributions(m, track) ==
    [energy   |-> MatchEnergy(m.energy, track),
     valence  |-> MatchValence(m.valence, track),
     tempo    |-> MatchTempo(m.tempo, OrEmpty(track.tempo)),
     genre    |-> MatchGenres(m.genres, OrEmpty(track.genre)),
     keywords |-> MatchKeywords(m.keywords, track)]

Clamp(score) == Max2(0, Min2(ScoreMax, score))

CalculateBaseScoreUnclamped(m, track) ==
    LET c == Contributions(m, track)
    IN  BaseStart + c.energy + c.valence + c.tempo + c.genre + c.keywords

CalculateBaseScore(m, track) ==
    LET c == Contributions(m, track)
    IN  Clamp(BaseStart + c.energy + c.valence + c.tempo + c.genre + c.keywords)

(***************************************************************************)
(* RankedTrack and the AI layer, rank.py lines 110-159                     *)
(*                                                                         *)
(* A model response is what self.model_manager.generate_json did: raised,  *)
(* returned success = false, or returned success = true with data.  Data   *)
(* is a mapping or not; of a mapping the model keeps what the parser reads:*)
(*   score   absent | null | bad (float() raises) | nan | num (hundredths) *)
(*   reason  absent | text (its words)                                     *)
(*   factors absent | notlist | list (its entries)                         *)
(* A RankedTrack also carries pos, the position in the input list of the   *)
(* Track object it refers to.                                              *)
(***************************************************************************)
MaxWords   == 25
MaxFactors == 3

FallbackReason  == <<"Matches", "your", "mood", "based", "on", "musical", "features">>
FallbackFactors == <<"tempo", "energy", "style">>
DefaultReason   == <<"Good", "match", "for", "your", "mood">>
MalformedFactors == <<"mood compatibility">>

CreateFallbackRanking(track, pos, base_score) ==
    [pos |-> pos, track |-> track, score |-> base_score,
     reason |-> FallbackReason, match_factors |-> FallbackFactors]

\* float(data.get("score", base_score)) raises on None and on non-numeric values
FloatRaises(data) == data.score.k \in {"null", "bad"}

\* line 141 left out
NoClampFloat(f) == f.v

\* max(0.0, min(10.0, score)): a comparison with nan is false, so min keeps 10.0
ClampFloat(f) ==
    LET lessThanMax == f.k = "num" /\ f.v < ScoreMax
        m == IF lessThanMax THEN f.v ELSE ScoreMax
    IN  IF m > 0 THEN m ELSE 0

ParseAiResponse(track, pos, data, base_score) ==
    IF ~data.mapping \/ FloatRaises(data)
    THEN \* data.get or float() raised: except Exception, line 150
         CreateFallbackRanking(track, pos, base_score)
    ELSE LET raw     == IF data.score.k = "absent"
                        THEN [k |-> "num", v |-> base_score]
                        ELSE data.score
             score   == ClampFloat(raw)
             words   == IF data.reason.k = "absent" THEN DefaultReason ELSE data.reason.w
             reason  == IF Len(words) > MaxWords THEN SubSeq(words, 1, MaxWords) ELSE words
             factors == IF data.factors.k = "absent" THEN <<>>
                        ELSE IF data.factors.k # "list" THEN MalformedFactors
                        ELSE data.factors.f
         IN  [pos |-> pos, track |-> track, score |-> score, reason |-> reason,
              match_factors |-> PySliceTo(factors, MaxFactors)]

\* The outcome of _get_ai_ranking: it raised (exc), returned None (none), or
\* returned the record val.
Outcome(exc, none, val) == [exc |-> exc, none |-> none, val |-> val]

\* the same, reading data whatever the success flag says
GetAiRankingIgnoringSuccess(mm, cand, resp) ==
    LET fb == CreateFallbackRanking(cand.track, cand.pos, cand.base)
    IN  IF mm = None \/ resp.kind = "raise"
        THEN Outcome(TRUE, FALSE, fb)
        ELSE Outcome(FALSE, FALSE, ParseAiResponse(cand.track, cand.pos, resp.data, cand.base))

GetAiRanking(mm, cand, resp) ==
    LET fb == CreateFallbackRanking(cand.track, cand.pos, cand.base)
    IN  IF mm = None \/ resp.kind = "raise"
        THEN \* None has no generate_json (AttributeError), or the call raised
             Outcome(TRUE, FALSE, fb)
        ELSE IF resp.kind = "fail"
        THEN Outcome(FALSE, TRUE, fb)
        ELSE Outcome(FALSE, FALSE, ParseAiResponse(cand.track, cand.pos, resp.data, cand.base))

\* the same without the except clause of lines 44-45
LoopBodyNoExcept(mm, cand, resp) ==
    LET r  == GetAiRanking(mm, cand, resp)
        fb == CreateFallbackRanking(cand.track, cand.pos, cand.base)
    IN  IF r.exc THEN r ELSE Outcome(FALSE, FALSE, IF r.none THEN fb ELSE r.val)

\* lines 41-45: the record appended for one shortlisted track; exc tells that
\* the iteration let an exception out
LoopBody(mm, cand, resp) ==
    LET r  == GetAiRanking(mm, cand, resp)
        fb == CreateFallbackRanking(cand.track, cand.pos, cand.base)
    IN  IF r.exc
        THEN Outcome(FALSE, FALSE, fb)
        ELSE Outcome(FALSE, FALSE, IF r.none THEN fb ELSE r.val)

(***************************************************************************)
(* rank_and_explain, rank.py lines 29-48                                   *)
(***************************************************************************)
\* list.sort(key, reverse=True) is stable: the order in which the elements
\* of a list with these keys come out, equal keys keeping their order.
RECURSIVE SortIdxDescUnstable(_, _)
SortIdxDescUnstable(keys, n) ==
    IF n = 0 THEN <<>>
    ELSE LET prev == SortIdxDescUnstable(keys, n - 1)
             p    == Cardinality({i \in DOMAIN prev : keys[prev[i]] > keys[n]})
         IN  SubSeq(prev, 1, p) \o <<n>> \o SubSeq(prev, p + 1, n - 1)

RECURSIVE SortIdxDesc(_, _)
SortIdxDesc(keys, n) ==
    IF n = 0 THEN <<>>
    ELSE LET prev == SortIdxDesc(keys, n - 1)
             p    == Cardinality({i \in DOMAIN prev : keys[prev[i]] >= keys[n]})
         IN  SubSeq(prev, 1, p) \o <<n>> \o SubSeq(prev, p + 1, n - 1)

\* line 35
Scored(m, ts) ==
    [i \in 1..Len(ts) |-> [pos |-> i, track |-> ts[i], base |-> CalculateBaseScore(m, ts[i])]]

\* line 36
SortByBase(scored) ==
    LET idx == SortIdxDesc([i \in DOMAIN scored |-> scored[i].base], Len(scored))
    IN  [i \in DOMAIN scored |-> scored[idx[i]]]

ShortlistSizeTopK(k, n) == Min2(k, n)

ShortlistSize(k, n) == Min2(k * 2, n)

\* lines 35-37
Shortlist(m, ts, k) ==
    LET scored == SortByBase(Scored(m, ts))
    IN  PySliceTo(scored, ShortlistSize(k, Len(scored)))

\* line 47
SortByScore(rs) ==
    LET idx == SortIdxDesc([i \in DOMAIN rs |-> rs[i].score], Len(rs))
    IN  [i \in DOMAIN rs |-> rs[idx[i]]]

ReturnedAll(rs, k) == SortByScore(rs)

\* lines 47-48
Returned(rs, k) == PySliceTo(SortByScore(rs), k)

(***************************************************************************)
(* Idle values of the variables a specification does not use               *)
(***************************************************************************)
NoMood  == [energy |-> "medium", valence |-> "neutral", tempo |-> "medium",
            genres |-> <<>>, keywords |-> <<>>]
NoTrack == [title |-> <<>>, artist |-> <<>>, genre |-> None, tags |-> <<>>,
            tempo |-> None, features |-> <<>>]
NoParts == [energy |-> 0, valence |-> 0, tempo |-> 0, genre |-> 0, keywords |-> 0]

RankIdle ==
    /\ mood = NoMood /\ tracks = <<>> /\ top_k = 0 /\ model_manager = None
    /\ pc = "idle" /\ bases = <<>> /\ candidates = <<>> /\ ranked = <<>>
    /\ resps = <<>> /\ calls = <<>> /\ result = <<>>
ScoreIdle ==
    /\ sMood = NoMood /\ sTrack = NoTrack /\ sPc = "idle" /\ sScore = 0
    /\ sParts = NoParts
MonoIdle  == mIn = <<>> /\ mOut = <<>> /\ mPc = "idle"
TextIdle  == jText = <<>> /\ jOut = <<>> /\ jTier = "idle"
ParseIdle == pText = <<>> /\ pOut = <<>> /\ pPc = "idle"
ValIdle   == vIn = <<>> /\ vOnce = <<>> /\ vTwice = <<>> /\ vPc = "idle"
FetchIdle == fN = 0 /\ fCache = <<>> /\ fDisk = <<>> /\ fCalls = <<>>
GenIdle   == gIn = <<>> /\ gCalls = <<>> /\ gResp = <<>> /\ gJson = <<>> /\ gPc = "idle"
ExtIdle   == MonoIdle /\ TextIdle /\ ParseIdle /\ ValIdle /\ FetchIdle /\ GenIdle

(***************************************************************************)
(* Inputs of rank_and_explain                                              *)
(***************************************************************************)
MaxTracks == 3
MaxTopK   == 2

TopKs == (-1)..MaxTopK

RankMoods ==
    {[energy |-> "high", valence |-> "positive", tempo |-> "fast",
      genres |-> <<"pop">>, keywords |-> <<"happy">>],
     [energy |-> "medium", valence |-> "neutral", tempo |-> "medium",
      genres |-> <<>>, keywords |-> <<>>]}

\* three rows of the built-in offline set, as _normalize builds them
TrackPool ==
    {[title |-> <<"Blinding", "Lights">>, artist |-> <<"The", "Weeknd">>,
      genre |-> "unknown", tags |-> <<"energetic", "laidback", "somber">>,
      tempo |-> "fast", features |-> [energy |-> 73, valence |-> 33]],
     [title |-> <<"Yellow">>, artist |-> <<"Coldplay">>,
      genre |-> "unknown", tags |-> <<"balanced", "laidback", "neutral">>,
      tempo |-> "fast", features |-> [energy |-> 57, valence |-> 55]],
     [title |-> <<"Hotel", "California">>, artist |-> <<"Eagles">>,
      genre |-> "unknown", tags |-> <<"balanced", "laidback", "neutral">>,
      tempo |-> "slow", features |-> [energy |-> 55, valence |-> 45]]}

TrackLists(n) == UNION {[1..m -> TrackPool] : m \in 0..n}

Num(v)       == [k |-> "num", v |-> v]
ScoreOf(k)   == [k |-> k, v |-> 0]
Text(n)      == [k |-> "text", w |-> [i \in 1..n |-> "word"]]
NoReason     == [k |-> "absent", w |-> <<>>]
FactorNames  == <<"tempo", "energy", "genre", "mood", "tags">>
FactorList(n) == [k |-> "list", f |-> SubSeq(FactorNames, 1, n)]
FactorsOf(k) == [k |-> k, f |-> <<>>]

Data(mapping, score, reason, factors) ==
    [mapping |-> mapping, score |-> score, reason |-> reason, factors |-> factors]
EmptyData == Data(TRUE, ScoreOf("absent"), NoReason, FactorsOf("absent"))
NotAMapping == Data(FALSE, ScoreOf("absent"), NoReason, FactorsOf("absent"))

Response(kind, data) == [kind |-> kind, data |-> data]
Raised == Response("raise", EmptyData)
Failed == Response("fail", EmptyData)
\* what resps records for a ranker built with model_manager = None
NoCall == Response("nocall", EmptyData)

\* the responses one call of rank_and_explain draws from
Responses ==
    {Raised, Failed,
     Response("ok", EmptyData),
     Response("ok", Data(TRUE, ScoreOf("bad"), Text(3), FactorList(1))),
     Response("ok", Data(TRUE, Num(2500), Text(30), FactorList(5))),
     Response("ok", Data(TRUE, Num(800), NoReason, FactorList(2)))}

\* every shape of response, for a call over a single track
AllData ==
    {NotAMapping} \cup
    {Data(TRUE, sc, re, fa) :
        sc \in {ScoreOf("absent"), ScoreOf("null"), ScoreOf("bad"), ScoreOf("nan")}
               \cup {Num(v) : v \in {-300, 0, 800, 1000, 2500}},
        re \in {NoReason} \cup {Text(n) : n \in {0, 3, 25, 26, 30}},
        fa \in {FactorsOf("absent"), FactorsOf("notlist")}
               \cup {FactorList(n) : n \in {0, 1, 3, 5}}}
AllResponses == {Raised, Failed} \cup {Response("ok", d) : d \in AllData}

RankInit ==
    /\ mood \in RankMoods
    /\ tracks \in TrackLists(MaxTracks)
    /\ top_k \in TopKs
    /\ model_manager \in {"present", None}
    /\ pc = "start"
    /\ bases = <<>> /\ candidates = <<>> /\ ranked = <<>> /\ resps = <<>>
    /\ calls = <<>> /\ result = <<>>
    /\ ScoreIdle /\ ExtIdle

\* a call over one track, for the specification that draws any response
OneInit ==
    /\ mood \in RankMoods
    /\ tracks \in [1..1 -> TrackPool]
    /\ top_k = 1
    /\ model_manager \in {"present", None}
    /\ pc = "start"
    /\ bases = <<>> /\ candidates = <<>> /\ ranked = <<>> /\ resps = <<>>
    /\ calls = <<>> /\ result = <<>>
    /\ ScoreIdle /\ ExtIdle

\* lines 32-33
ReturnEmpty ==
    /\ pc = "start"
    /\ tracks = <<>>
    /\ result' = <<>>
    /\ pc' = "done"
    /\ UNCHANGED <<mood, tracks, top_k, model_manager, bases, candidates, ranked, resps, calls,
                   scoreVars, extVars>>

\* lines 35-39
MakeShortlist ==
    /\ pc = "start"
    /\ tracks # <<>>
    /\ bases' = [i \in 1..Len(tracks) |-> CalculateBaseScore(mood, tracks[i])]
    /\ candidates' = Shortlist(mood, tracks, top_k)
    /\ pc' = "loop"
    /\ UNCHANGED <<mood, tracks, top_k, model_manager, ranked, resps, calls, result,
                   scoreVars, extVars>>

\* line 112 with a model manager: generate_json is invoked for the next
\* shortlisted track and the ranker waits for it
Invoke ==
    /\ pc = "loop"
    /\ Len(ranked) < Len(candidates)
    /\ model_manager # None
    /\ calls' = Append(calls, candidates[Len(ranked) + 1].pos)
    /\ pc' = "calling"
    /\ UNCHANGED <<mood, tracks, top_k, model_manager, bases, candidates, ranked, resps, result,
                   scoreVars, extVars>>

\* the rest of the iteration, lines 113-115 and 43-45, on what the call did
Complete(R) ==
    /\ pc = "calling"
    /\ \E resp \in R :
        LET out == LoopBody(model_manager, candidates[Len(ranked) + 1], resp)
        IN  /\ resps' = Append(resps, resp)
            /\ IF out.exc
               THEN pc' = "raised" /\ ranked' = ranked
               ELSE pc' = "loop" /\ ranked' = Append(ranked, out.val)
    /\ UNCHANGED <<mood, tracks, top_k, model_manager, bases, candidates, calls, result,
                   scoreVars, extVars>>

CompleteCall == Complete(Responses)
CompleteAny  == Complete(AllResponses)

\* the iteration of a ranker without model manager: line 112 raises
\* AttributeError before any call
IterateWithoutManager ==
    /\ pc = "loop"
    /\ Len(ranked) < Len(candidates)
    /\ model_manager = None
    /\ LET out == LoopBody(model_manager, candidates[Len(ranked) + 1], NoCall)
       IN  /\ resps' = Append(resps, NoCall)
           /\ IF out.exc
              THEN pc' = "raised" /\ ranked' = ranked
              ELSE pc' = "loop" /\ ranked' = Append(ranked, out.val)
    /\ UNCHANGED <<mood, tracks, top_k, model_manager, bases, candidates, calls, result,
                   scoreVars, extVars>>

\* lines 47-48
Return ==
    /\ pc = "loop"
    /\ Len(ranked) = Len(candidates)
    /\ result' = Returned(ranked, top_k)
    /\ pc' = "done"
    /\ UNCHANGED <<mood, tracks, top_k, model_manager, bases, candidates, ranked, resps, calls,
                   scoreVars, extVars>>

Next ==
    \/ ReturnEmpty
    \/ MakeShortlist
    \/ Invoke
    \/ CompleteCall
    \/ IterateWithoutManager
    \/ Return

Spec == RankInit /\ [][Next]_vars

OneNext ==
    \/ MakeShortlist
    \/ Invoke
    \/ CompleteAny
    \/ IterateWithoutManager
    \/ Return

SpecOne == OneInit /\ [][OneNext]_vars

(***************************************************************************)
(* Properties of rank_and_explain                                          *)
(***************************************************************************)
\* the base score of the track at input position p
BaseAt(p) == bases[p]

IsFallbackOf(r, p) ==
    /\ r.pos = p
    /\ r.track = tracks[p]
    /\ r.score = BaseAt(p)
    /\ r.reason = FallbackReason
    /\ r.match_factors = FallbackFactors

Positions(rs) == {rs[i].pos : i \in DOMAIN rs}

\* the AI interaction or the parsing of its response raised for the i-th
\* shortlisted track
RaisedAt(i) ==
    \/ resps[i].kind \in {"raise", "nocall"}
    \/ /\ resps[i].kind = "ok"
       /\ \/ ~resps[i].data.mapping
          \/ resps[i].data.score.k \in {"null", "bad"}

\* C1: for top_k >= 1 and whatever the model capability does, every returned
\* record has 0.0 <= score <= 10.0, a reason of at most 25 words and at most
\* 3 match_factors.
C1_RecordInvariants ==
    (pc = "done" /\ top_k >= 1) =>
        \A i \in DOMAIN result :
            /\ 0 <= result[i].score /\ result[i].score <= ScoreMax
            /\ Len(result[i].reason) <= MaxWords
            /\ Len(result[i].match_factors) <= MaxFactors

\* a returned record made from a response over every limit, in a call where
\* another model call raised
C1_Witness ==
    /\ pc = "done" /\ top_k >= 1
    /\ \E j \in DOMAIN resps : resps[j].kind = "raise"
    /\ \E i \in DOMAIN result, j \in DOMAIN resps :
        /\ candidates[j].pos = result[i].pos
        /\ resps[j].kind = "ok"
        /\ resps[j].data.score.k = "num" /\ resps[j].data.score.v > ScoreMax
        /\ Len(resps[j].data.reason.w) > MaxWords
        /\ Len(resps[j].data.factors.f) > MaxFactors
        /\ result[i].score = ScoreMax
        /\ Len(result[i].reason) = MaxWords
        /\ Len(result[i].match_factors) = MaxFactors

\* C2: for top_k >= 1 and N input tracks, exactly min(top_k, N) records are
\* returned, each the record of a distinct position of the input list.
C2_ExactlyMinRecords ==
    (pc = "done" /\ top_k >= 1) =>
        /\ Len(result) = (IF top_k < Len(tracks) THEN top_k ELSE Len(tracks))
        /\ \A i \in DOMAIN result :
            /\ result[i].pos \in DOMAIN tracks
            /\ result[i].track = tracks[result[i].pos]
        /\ \A i, j \in DOMAIN result : i # j => result[i].pos # result[j].pos

\* three tracks, two of them the same, cut to one record
C2_Witness ==
    /\ pc = "done" /\ top_k = 1
    /\ Len(tracks) = 3 /\ tracks[1] = tracks[2]
    /\ Len(result) = 1
    /\ Len(ranked) = 2

Degraded ==
    \/ model_manager = None
    \/ \A i \in DOMAIN resps : resps[i].kind = "fail"

\* C3: degraded mode (no model manager, or success = false for every call):
\* for top_k >= 1 the result is the fallback records of the min(top_k, N)
\* tracks of largest base score, in descending base score and, for equal base
\* scores, in input order; so the result is a function of the inputs alone.
C3_DegradedMode ==
    (pc = "done" /\ top_k >= 1 /\ Degraded) =>
        /\ Len(result) = (IF top_k < Len(tracks) THEN top_k ELSE Len(tracks))
        /\ \A i \in DOMAIN result :
            result[i].pos \in DOMAIN tracks /\ IsFallbackOf(result[i], result[i].pos)
        /\ \A i, j \in DOMAIN result :
            i < j => \/ result[i].score > result[j].score
                     \/ /\ result[i].score = result[j].score
                        /\ result[i].pos < result[j].pos
        /\ LET base == bases
           IN  \A p \in DOMAIN tracks \ Positions(result) :
                   \A i \in DOMAIN result :
                       \/ base[p] < result[i].score
                       \/ base[p] = result[i].score /\ result[i].pos < p

\* a model manager that failed three times, two records returned, the track
\* left out having a smaller base score than some returned one
C3_Witness ==
    /\ pc = "done" /\ top_k = 2 /\ model_manager # None
    /\ Len(resps) = 3
    /\ \A i \in DOMAIN resps : resps[i].kind = "fail"
    /\ Len(result) = 2
    /\ result[1].score > result[2].score

\* C4: no error of the AI interaction or of the response parsing leaves
\* rank_and_explain: every processed track has its record, a track whose call
\* or parsing raised has exactly its fallback record, and a track whose
\* response carries a number has that number, clamped, whatever happened to
\* the others.
C4_NoErrorEscapes ==
    top_k >= 1 =>
        /\ pc # "raised"
        /\ Len(resps) = Len(ranked)
        /\ \A i \in DOMAIN ranked :
            /\ ranked[i].pos = candidates[i].pos
            /\ RaisedAt(i) => IsFallbackOf(ranked[i], candidates[i].pos)
            /\ (resps[i].kind = "ok" /\ resps[i].data.mapping
                    /\ resps[i].data.score.k = "num") =>
                /\ ranked[i].score = Clamp(resps[i].data.score.v)
                /\ ranked[i].reason # FallbackReason

\* a call that returned after one model call raised, the parsing of another
\* response raised and a third response was used
C4_Witness ==
    /\ pc = "done" /\ top_k >= 1
    /\ \E i, j, k \in DOMAIN resps :
        /\ i < j /\ j < k
        /\ resps[i].kind = "raise"
        /\ resps[j].kind = "ok" /\ resps[j].data.score.k = "bad"
        /\ resps[k].kind = "ok" /\ resps[k].data.score.k = "num"
        /\ ranked[k].score = resps[k].data.score.v
    /\ Len(result) = 2

NoUsableScore(resp) ==
    \/ resp.kind = "fail"
    \/ /\ resp.kind = "ok"
       /\ \/ ~resp.data.mapping
          \/ resp.data.score.k \in {"absent", "null", "bad"}

\* C5: a response with success = false, or a successful one whose data has no
\* usable score (key missing, null, non-numeric, data empty or not a mapping)
\* gives exactly the fallback record: base score, the fixed reason, the
\* labels tempo, energy, style.
C5_FallbackWithoutScore ==
    \A i \in DOMAIN ranked :
        NoUsableScore(resps[i]) => IsFallbackOf(ranked[i], candidates[i].pos)

\* C6: a successful response with a usable score gives the first min(3, n)
\* entries of its factors list, in order, and a one-element generic list when
\* factors is absent or not a list.
C6_FactorsOfSuccess ==
    \A i \in DOMAIN ranked :
        (resps[i].kind = "ok" /\ resps[i].data.mapping /\ resps[i].data.score.k = "num") =>
            IF resps[i].data.factors.k = "list"
            THEN LET f == resps[i].data.factors.f
                 IN  ranked[i].match_factors =
                         SubSeq(f, 1, IF Len(f) < MaxFactors THEN Len(f) ELSE MaxFactors)
            ELSE Len(ranked[i].match_factors) = 1

\* C7: the returned list is in non-increasing final score; records of equal
\* final score are in shortlist order: higher base score first, and for equal
\* base scores the earlier input position first.
C7_OrderedByScore ==
    (pc = "done" /\ top_k >= 1) =>
        LET base == bases
        IN  \A i, j \in DOMAIN result :
                i < j =>
                    \/ result[i].score > result[j].score
                    \/ /\ result[i].score = result[j].score
                       /\ \/ base[result[i].pos] > base[result[j].pos]
                          \/ /\ base[result[i].pos] = base[result[j].pos]
                             /\ result[i].pos < result[j].pos

\* a fallback record and an AI-derived record of the same final score, of
\* tracks of different base scores
C7_Witness ==
    /\ pc = "done" /\ top_k >= 1
    /\ \E i, j \in DOMAIN result :
        /\ i < j
        /\ result[i].score = result[j].score
        /\ BaseAt(result[i].pos) > BaseAt(result[j].pos)
        /\ result[i].reason # FallbackReason
        /\ result[j].reason = FallbackReason

\* C8: with top_k >= 1 (and a model manager), generate_json is invoked once
\* per shortlisted track, in shortlist order, one call at a time; the
\* shortlist is the min(2 * top_k, N) tracks of largest base score in
\* descending order, so a returning call has made exactly min(2 * top_k, N)
\* invocations and returns shortlisted tracks only.
C8_OneCallPerShortlisted ==
    (top_k >= 1 /\ model_manager # None /\ pc # "start") =>
        LET n    == IF 2 * top_k < Len(tracks) THEN 2 * top_k ELSE Len(tracks)
            base == bases
        IN  /\ Len(candidates) = n
            /\ Len(calls) = Len(ranked) + (IF pc = "calling" THEN 1 ELSE 0)
            /\ \A i \in DOMAIN calls : calls[i] = candidates[i].pos
            /\ \A i, j \in DOMAIN candidates : i < j =>
                /\ candidates[i].pos # candidates[j].pos
                /\ base[candidates[i].pos] >= base[candidates[j].pos]
            /\ \A i \in DOMAIN candidates :
                \A p \in DOMAIN tracks \ Positions(candidates) :
                    base[p] <= base[candidates[i].pos]
            /\ pc = "done" =>
                /\ Len(calls) = n
                /\ Positions(result) \subseteq Range(calls)

\* three tracks and top_k = 1: two invocations, and the second shortlisted
\* track returned because the model scored it higher
C8_Witness ==
    /\ pc = "done" /\ top_k = 1 /\ model_manager # None
    /\ Len(tracks) = 3
    /\ Len(calls) = 2
    /\ Len(result) = 1
    /\ result[1].pos = calls[2]
    /\ BaseAt(calls[1]) > BaseAt(calls[2])

(***************************************************************************)
(* _calculate_base_score on its own: every profile of ScoreMoods against   *)
(* every track of ScoreTracks                                              *)
(***************************************************************************)
ScoreMoods ==
    [energy   : {"low", "high", "extreme"},
     valence  : {"positive", "mixed"},
     tempo    : {"slow", "medium", "fast", "brisk"},
     genres   : {<<>>, <<"rock">>, <<"indie", "Rock">>},
     keywords : {<<>>, <<"happy", "sun", "energetic">>}]

FeatureSets ==
    {<<>>} \cup [{"energy"} -> {-50, 30, 80, 300}] \cup [{"energy", "valence"} -> {70}]

ScoreTracks ==
    [title    : {<<"Sunshine">>},
     artist   : {<<"Coldplay">>},
     genre    : {None, "rock", "Indie"},
     tags     : {<<>>, <<"Happy", "energetic", "danceable">>},
     tempo    : {None, "", "slow", "mid", "medium", "fast"},
     features : FeatureSets]

ScoreInit ==
    /\ sMood \in ScoreMoods
    /\ sTrack \in ScoreTracks
    /\ sPc = "call"
    /\ sScore = 0
    /\ sParts = NoParts
    /\ RankIdle /\ ExtIdle

Score ==
    /\ sPc = "call"
    /\ sParts' = Contributions(sMood, sTrack)
    /\ sScore' = CalculateBaseScore(sMood, sTrack)
    /\ sPc' = "done"
    /\ UNCHANGED <<sMood, sTrack, rankVars, extVars>>

ScoreNext == Score
SpecScore == ScoreInit /\ [][ScoreNext]_vars

PartsSum(p) == p.energy + p.valence + p.tempo + p.genre + p.keywords

\* C9: for every profile (out-of-vocabulary energy, valence or tempo, empty
\* genres or keywords included) and every track (missing features, tempo or
\* genre included), _calculate_base_score returns a value in [0, 10] that is
\* 5.0 plus the five signal contributions, clamped to that range.
C9_BaseScoreInRange ==
    sPc = "done" =>
        /\ 0 <= sScore /\ sScore <= ScoreMax
        /\ LET raw == BaseStart + PartsSum(sParts)
           IN  sScore = (IF raw > ScoreMax THEN ScoreMax ELSE IF raw < 0 THEN 0 ELSE raw)

\* a profile with an out-of-vocabulary energy and a track without features or
\* tempo whose contributions exceed 10.0 before the clamp
C9_Witness ==
    /\ sPc = "done"
    /\ sMood.energy \notin DOMAIN EnergyTargets
    /\ sTrack.features = <<>>
    /\ sTrack.tempo = None
    /\ BaseStart + PartsSum(sParts) > ScoreMax
    /\ sScore = ScoreMax

\* the tempo categories of the two vocabularies, "mid" and "medium" being one
TempoCategory(t) ==
    IF t = "slow" THEN 0 ELSE IF t \in {"mid", "medium"} THEN 1 ELSE 2

\* C10: for a mood tempo in {slow, medium, fast} and a track tempo of either
\* vocabulary, the tempo contribution is 1.5 for equal categories, 0.5 for
\* adjacent ones and 0 otherwise (slow/fast, or no track tempo).
C10_TempoContribution ==
    (sPc = "done" /\ sMood.tempo \in {"slow", "medium", "fast"}) =>
        IF sTrack.tempo \in {"slow", "mid", "medium", "fast"}
        THEN LET d == Abs(TempoCategory(sMood.tempo) - TempoCategory(sTrack.tempo))
             IN  sParts.tempo = (IF d = 0 THEN TempoExact ELSE IF d = 1 THEN TempoNear ELSE 0)
        ELSE sParts.tempo = 0

(***************************************************************************)
(* _match_genres on its own, rank.py lines 82-98: the profile's genres are *)
(* lists of up to MaxGenres names, in either order and either case, and    *)
(* the track's genre is absent, empty, a family head, a family member or   *)
(* a name of no family.                                                    *)
(***************************************************************************)
MaxGenres == 2

GenreNames == {"rock", "Rock", "indie", "pop", "hip-hop"}
GenreLists(len) == UNION {[1..n -> GenreNames] : n \in 0..len}
TrackGenres == {None, "", "rock", "indie", "Indie", "rap", "disco", "unknown"}

GenreInit ==
    /\ sMood \in [energy : {"high"}, valence : {"positive"}, tempo : {"fast"},
                  genres : GenreLists(MaxGenres), keywords : {<<>>}]
    /\ sTrack \in [title : {<<"Sunshine">>}, artist : {<<"Coldplay">>},
                   genre : TrackGenres, tags : {<<>>}, tempo : {"fast"},
                   features : {<<>>}]
    /\ sPc = "call"
    /\ sScore = 0
    /\ sParts = NoParts
    /\ RankIdle /\ ExtIdle

SpecGenre == GenreInit /\ [][ScoreNext]_vars

\* the genres of a profile as a set of lowercase names, and the track's
GenreSet(m) == {Lower(m.genres[i]) : i \in DOMAIN m.genres}
GenreOfTrack(t) == IF t.genre = None THEN "" ELSE Lower(t.genre)

\* C11: the genre contribution is 1.0 when the track genre is one of the mood
\* genres (names compared in lower case), otherwise 0.5 when it belongs to the
\* family keyed by at least one mood genre, otherwise 0; the order of the mood
\* genres plays no part, the family relation runs from mood genre to track genre
\* only (mood "indie", track "rock" gives 0), and the contribution is 0 when the
\* mood has no genres or the track has no genre.
C11_GenreContribution ==
    sPc = "done" =>
        LET gs == GenreSet(sMood)
            tg == GenreOfTrack(sTrack)
        IN  /\ sParts.genre =
                  (IF gs = {} \/ tg = "" THEN 0
                   ELSE IF tg \in gs THEN GenreExact
                   ELSE IF \E g \in gs \cap DOMAIN Families : tg \in Families[g]
                        THEN GenreFamily
                   ELSE 0)
            /\ (gs = {"indie"} /\ tg = "rock") => sParts.genre = 0
            /\ (sMood.genres = <<>> \/ sTrack.genre \in {None, ""}) => sParts.genre = 0

\* mood genres "rock" then "indie" with a track of genre "indie": the family of
\* the first mood genre holds the track genre, the second is the track genre
C11_Witness ==
    /\ sPc = "done"
    /\ sMood.genres = <<"rock", "indie">>
    /\ sTrack.genre = "indie"
    /\ sParts.genre = GenreExact

(***************************************************************************)
(* _calculate_base_score on two tracks for one profile, rank.py lines      *)
(* 51-58.  The second track is the first with one positive signal          *)
(* improved: the signals are the five relations the score is built from,   *)
(* read off the inputs.                                                    *)
(***************************************************************************)
MonoMoods ==
    [energy   : {"high", "low"},
     valence  : {"positive"},
     tempo    : {"slow", "medium", "fast"},
     genres   : {<<>>, <<"rock">>},
     keywords : {<<"happy", "sun">>}]

MonoTracks ==
    [title    : {<<"Sunshine">>},
     artist   : {<<"Coldplay">>},
     genre    : {None, "rock", "indie", "disco"},
     tags     : {<<>>, <<"happy">>, <<"calm">>, <<"calm", "happy">>},
     tempo    : {None, "slow", "mid", "medium", "fast"},
     features : {<<>>} \cup [{"energy", "valence"} -> {30, 80}]]

\* distance of a track feature from the profile's target, lines 61-63, 67-69
EnergyDiff(m, t)  == Abs(Get(t.features, "energy", FeatureDflt) - Get(EnergyTargets, m.energy, 60))
ValenceDiff(m, t) == Abs(Get(t.features, "valence", FeatureDflt) - Get(ValenceTargets, m.valence, 50))

\* 0 no match, 1 adjacent, 2 exact: tempo by category, genre by lines 86, 96
TempoRelation(m, t) ==
    IF OrEmpty(t.tempo) \notin {"slow", "mid", "medium", "fast"}
       \/ m.tempo \notin {"slow", "medium", "fast"}
    THEN 0
    ELSE LET d == Abs(TempoCategory(m.tempo) - TempoCategory(t.tempo))
         IN  IF d = 0 THEN 2 ELSE IF d = 1 THEN 1 ELSE 0

GenreRelation(m, t) ==
    LET gs == GenreSet(m)
        tg == GenreOfTrack(t)
    IN  IF gs = {} \/ tg = "" THEN 0
        ELSE IF tg \in gs THEN 2
        ELSE IF \E g \in gs \cap DOMAIN Families : tg \in Families[g] THEN 1
        ELSE 0

\* the mood keywords found among the tags or inside the title or artist
Overlapping(m, t) ==
    {Lower(m.keywords[i]) : i \in
        {j \in DOMAIN m.keywords :
            \/ \E x \in DOMAIN t.tags : Lower(t.tags[x]) = Lower(m.keywords[j])
            \/ \E x \in DOMAIN t.title : IsSubstring(Lower(m.keywords[j]), Lower(t.title[x]))
            \/ \E x \in DOMAIN t.artist : IsSubstring(Lower(m.keywords[j]), Lower(t.artist[x]))}}

\* b is a with exactly one signal improved and everything else as it was
Improves(m, a, b) ==
    \/ /\ b = [a EXCEPT !.features = b.features]
       /\ DOMAIN a.features = DOMAIN b.features /\ a.features # <<>>
       /\ \/ /\ b.features = [a.features EXCEPT !["energy"] = b.features["energy"]]
             /\ EnergyDiff(m, b) < EnergyDiff(m, a)
          \/ /\ b.features = [a.features EXCEPT !["valence"] = b.features["valence"]]
             /\ ValenceDiff(m, b) < ValenceDiff(m, a)
    \/ /\ b = [a EXCEPT !.tempo = b.tempo]
       /\ TempoRelation(m, b) > TempoRelation(m, a)
    \/ /\ b = [a EXCEPT !.genre = b.genre]
       /\ GenreRelation(m, b) > GenreRelation(m, a)
    \/ /\ \E w \in Range(m.keywords) : b = [a EXCEPT !.tags = Append(a.tags, w)]
       /\ Cardinality(Overlapping(m, b)) = Cardinality(Overlapping(m, a)) + 1

MonoInit ==
    /\ mIn \in {p \in [mood : MonoMoods, a : MonoTracks, b : MonoTracks] :
                    Improves(p.mood, p.a, p.b)}
    /\ mOut = <<>>
    /\ mPc = "call"
    /\ RankIdle /\ ScoreIdle
    /\ TextIdle /\ ParseIdle /\ ValIdle /\ FetchIdle /\ GenIdle

ScoreBoth ==
    /\ mPc = "call"
    /\ mOut' = [a |-> CalculateBaseScore(mIn.mood, mIn.a),
                b |-> CalculateBaseScore(mIn.mood, mIn.b)]
    /\ mPc' = "done"
    /\ UNCHANGED <<mIn, rankVars, scoreVars, textVars, parseVars, valVars, fetchVars,
                   genVars>>

MonoNext == ScoreBoth
SpecMono == MonoInit /\ [][MonoNext]_vars

\* C12: with everything else fixed, _calculate_base_score does not decrease
\* when one positive signal improves (energy or valence closer to its target,
\* tempo from no match to adjacent to exact, genre from none to family to
\* verbatim, one more mood keyword overlapping the track).
C12_Monotone ==
    mPc = "done" => mOut.b >= mOut.a

(***************************************************************************)
(* ensure_json and _extract_key_value_pairs, models.py lines 125-191.      *)
(* A text is a sequence of tokens written one after the other with a blank *)
(* between them; every token is one of the pieces the four recovery tiers  *)
(* look for:                                                               *)
(*   fence markers, bare and tagged json or JSON                           *)
(*   a JSON object with one member, score                                  *)
(*   lone braces, opening and closing                                      *)
(*   a JSON array, JSON that is not an object                              *)
(*   two statements the score pattern matches, 7.5 and 2                   *)
(*   a word nothing matches                                                *)
(*   white space                                                           *)
(* A parsed value is [kind, items]: kind is mapping or list, items the     *)
(* key/value pairs of a mapping with numbers in hundredths.                *)
(***************************************************************************)
\* the three-backtick marker, written with apostrophes
Fence     == "'''"
FenceJson == "'''json"
FenceJSON == "'''JSON"
Obj       == "{\"score\": 8.2}"
Open      == "{"
Close     == "}"
Arr       == "[1, 2]"
Score75   == "score: 7.5"
Score2    == "score: 2"
Word      == "great"
Space     == "\n"

Tokens == {Fence, FenceJson, FenceJSON, Obj, Open, Close, Arr, Score75, Score2, Word, Space}

Mapping(items) == [kind |-> "mapping", items |-> items]
EmptyMapping   == Mapping({})
ListValue      == [kind |-> "list", items |-> {}]
ObjValue       == Mapping({<<"score", 820>>})

\* str.strip(): white space off both ends
Strip(text) ==
    LET idx == {i \in DOMAIN text : text[i] # Space}
    IN  IF idx = {} THEN <<>>
        ELSE SubSeq(text, CHOOSE i \in idx : \A j \in idx : i <= j,
                          CHOOSE i \in idx : \A j \in idx : i >= j)

\* json.loads: ok with the value, or JSONDecodeError; white space between
\* the pieces of a document is allowed
Loaded(val) == [ok |-> TRUE, val |-> val]
DecodeError == [ok |-> FALSE, val |-> EmptyMapping]
JsonLoads(text) ==
    LET t == SelectSeq(text, LAMBDA x : x # Space)
    IN  IF t = <<Obj>> THEN Loaded(ObjValue)
        ELSE IF t = <<Open, Close>> THEN Loaded(EmptyMapping)
        ELSE IF t = <<Arr>> THEN Loaded(ListValue)
        ELSE DecodeError

\* marker in token: a tagged fence begins with the bare one
HasMarker(tok, marker) ==
    tok = marker \/ (marker = Fence /\ tok \in {FenceJson, FenceJSON})
\* what str.split(marker) leaves of a token at the head of the next part
Residue(tok, marker) ==
    IF tok = marker THEN <<>>
    ELSE IF tok = FenceJson THEN <<"json">> ELSE <<"JSON">>

\* text.split(marker): the number of parts, and parts[1]
MarkerAt(text, marker) == {i \in DOMAIN text : HasMarker(text[i], marker)}
NumParts(text, marker) == Cardinality(MarkerAt(text, marker)) + 1
Part1(text, marker) ==
    LET at == MarkerAt(text, marker)
        p1 == CHOOSE i \in at : \A j \in at : i <= j
        p2 == CHOOSE i \in at \ {p1} : \A j \in at \ {p1} : i <= j
    IN  Residue(text[p1], marker) \o SubSeq(text, p1 + 1, p2 - 1)


\* the result of one recovery tier: found with the value, or nothing
Found(tier, val) == [found |-> TRUE, tier |-> tier, val |-> val]
Nothing == [found |-> FALSE, tier |-> "none", val |-> EmptyMapping]

\* lines 140-150: the markers in turn; a marker that splits the text into
\* fewer than three parts, or whose parts[1] is not JSON, is passed over
json_markers == <<FenceJson, FenceJSON, Fence>>
FencedTier(text) ==
    LET hits == {k \in DOMAIN json_markers :
                    /\ MarkerAt(text, json_markers[k]) # {}
                    /\ NumParts(text, json_markers[k]) >= 3
                    /\ JsonLoads(Strip(Part1(text, json_markers[k]))).ok}
    IN  IF hits = {} THEN Nothing
        ELSE LET k == CHOOSE h \in hits : \A o \in hits : h <= o
             IN  Found("fenced", JsonLoads(Strip(Part1(text, json_markers[k]))).val)

\* lines 153-161: text.find("{") to text.rfind("}")
BracesTier(text) ==
    LET opens  == {i \in DOMAIN text : text[i] \in {Open, Obj}}
        closes == {i \in DOMAIN text : text[i] \in {Close, Obj}}
    IN  IF opens = {} \/ closes = {} THEN Nothing
        ELSE LET start_idx == CHOOSE i \in opens : \A j \in opens : i <= j
                 end_idx   == CHOOSE i \in closes : \A j \in closes : i >= j
                 content   == JsonLoads(SubSeq(text, start_idx, end_idx))
             IN  \* one token holds both braces when the two indexes are equal
                 IF start_idx <= end_idx /\ content.ok
                 THEN Found("braces", content.val)
                 ELSE Nothing

\* lines 171-177: the key of each pattern, and the statements of the text a
\* pattern matches with the number it captures
Patterns   == <<"score", "rating", "reason", "explanation", "match">>
Statements == {<<Score75, "score", 750>>, <<Score2, "score", 200>>}
MatchesAt(key, text) ==
    {i \in DOMAIN text : \E st \in Statements : st[1] = text[i] /\ st[2] = key}
Captured(key, tok) ==
    (CHOOSE st \in Statements : st[1] = tok /\ st[2] = key)[3]

\* matches[-1] in place of matches[0]
ExtractLastMatch(text) ==
    Mapping({<<Patterns[k],
               Captured(Patterns[k],
                        text[CHOOSE i \in MatchesAt(Patterns[k], text) :
                                \A j \in MatchesAt(Patterns[k], text) : i >= j])>> :
             k \in {n \in DOMAIN Patterns : MatchesAt(Patterns[n], text) # {}}})

\* lines 166-191: for every pattern that matches, its first match
ExtractKeyValuePairs(text) ==
    Mapping({<<Patterns[k],
               Captured(Patterns[k],
                        text[CHOOSE i \in MatchesAt(Patterns[k], text) :
                                \A j \in MatchesAt(Patterns[k], text) : i <= j])>> :
             k \in {n \in DOMAIN Patterns : MatchesAt(Patterns[n], text) # {}}})

\* lines 125-163
EnsureJson(response_text) ==
    LET text == Strip(response_text)
    IN  IF text = <<>> THEN Found("blank", EmptyMapping)
        ELSE IF JsonLoads(text).ok THEN Found("whole", JsonLoads(text).val)
        ELSE IF FencedTier(text).found THEN FencedTier(text)
        ELSE IF BracesTier(text).found THEN BracesTier(text)
        ELSE Found("regex", ExtractKeyValuePairs(text))

\* what _parse_ai_response reads of a value ensure_json returned
AsData(val) ==
    IF val.kind # "mapping" THEN NotAMapping
    ELSE Data(TRUE,
              IF \E it \in val.items : it[1] = "score"
              THEN Num((CHOOSE it \in val.items : it[1] = "score")[2])
              ELSE ScoreOf("absent"),
              NoReason, FactorsOf("absent"))

(***************************************************************************)
(* rank_and_explain over one track with a model client that answers with   *)
(* a text of at most MaxTokens tokens; ModelManager.generate_json, lines   *)
(* 231-245, hands the text to ensure_json.                                 *)
(***************************************************************************)
MaxTokens == 4

Texts(len) == UNION {[1..n -> Tokens] : n \in 0..len}

TextMood  == [energy |-> "medium", valence |-> "neutral", tempo |-> "medium",
              genres |-> <<>>, keywords |-> <<>>]
TextTrack == [title |-> <<"Yellow">>, artist |-> <<"Coldplay">>,
              genre |-> "unknown", tags |-> <<"balanced", "laidback", "neutral">>,
              tempo |-> "fast", features |-> [energy |-> 57, valence |-> 55]]

TextInit ==
    /\ jText \in Texts(MaxTokens)
    /\ jOut = <<>>
    /\ jTier = "call"
    /\ mood = TextMood
    /\ tracks = <<TextTrack>>
    /\ top_k = 1
    /\ model_manager = "present"
    /\ pc = "start"
    /\ bases = <<>> /\ candidates = <<>> /\ ranked = <<>> /\ resps = <<>>
    /\ calls = <<>> /\ result = <<>>
    /\ ScoreIdle /\ MonoIdle /\ ParseIdle /\ ValIdle /\ FetchIdle /\ GenIdle

\* generate_json on a successful response, lines 237-241
GenerateJson ==
    /\ pc = "calling"
    /\ jTier = "call"
    /\ jOut' = EnsureJson(jText).val
    /\ jTier' = EnsureJson(jText).tier
    /\ UNCHANGED <<jText, rankVars, scoreVars, monoVars, parseVars, valVars, fetchVars,
                   genVars>>

\* the ranker's iteration on the ModelResponse(success=True, data=json_data)
CompleteText ==
    /\ jTier # "call"
    /\ Complete({Response("ok", AsData(jOut))})

TextNext ==
    \/ MakeShortlist
    \/ Invoke
    \/ GenerateJson
    \/ CompleteText
    \/ Return

SpecText == TextInit /\ [][TextNext]_vars

\* C13: for every text, ensure_json returns a mapping, and the empty mapping
\* when no tier recovers anything.
C13_AlwaysMapping ==
    jTier \notin {"idle", "call"} => jOut.kind = "mapping"

\* the text holds a fenced block: a marker, bare or tagged json, the JSON
\* object, and a closing marker
HasFencedObject(text) ==
    \E i \in DOMAIN text :
        /\ i + 2 <= Len(text)
        /\ text[i] \in {Fence, FenceJson}
        /\ text[i + 1] = Obj
        /\ text[i + 2] = Fence

\* C14: when the whole text is not JSON and it holds a fenced block (bare or
\* tagged json) around a valid JSON object, ensure_json returns that object
\* through the fenced-block tier, whatever precedes or follows the block.
C14_FencedBlockTier ==
    (jTier \notin {"idle", "call"} /\ ~JsonLoads(Strip(jText)).ok /\ HasFencedObject(jText)) =>
        jTier = "fenced" /\ jOut = ObjValue

\* no JSON in the text: words, score statements and white space only
NoJson(text) == \A i \in DOMAIN text : text[i] \in {Score75, Score2, Word, Space}

\* the record the ranker returned for the one track has this score and keeps
\* the bounds on reason and factors
EmitsScore(v) ==
    /\ Len(result) = 1
    /\ result[1].score = v
    /\ Len(result[1].reason) <= MaxWords
    /\ Len(result[1].match_factors) <= MaxFactors

\* C15 as stated: a text without JSON that contains 'score: 7.5' gives score
\* 7.5 through the regex tier and a returned record of score 7.5 within the
\* bounds.
C15_ScoreRecovered ==
    (pc = "done" /\ NoJson(jText) /\ \E i \in DOMAIN jText : jText[i] = Score75) =>
        /\ jTier = "regex"
        /\ <<"score", 750>> \in jOut.items
        /\ EmitsScore(750)

\* C15: a text without JSON whose first score statement is 'score: 7.5' gives
\* score 7.5 through the regex tier, and the ranker returns for the track a
\* record of score 7.5 with at most 25 reason words and at most 3 factors.
C15_FirstScoreRecovered ==
    (/\ pc = "done" /\ NoJson(jText)
     /\ \E i \in DOMAIN jText :
            jText[i] = Score75 /\ \A j \in 1..(i - 1) : jText[j] # Score2) =>
        /\ jTier = "regex"
        /\ jOut = Mapping({<<"score", 750>>})
        /\ EmitsScore(750)

\* a word, 'score: 7.5', then another score statement: the record has 7.5
C15_Witness ==
    /\ pc = "done"
    /\ jText = <<Word, Score75, Score2>>
    /\ jTier = "regex"
    /\ result[1].score = 750

(***************************************************************************)
(* MoodParser, mood.py lines 18-119.  A mood text is a sequence of pieces  *)
(* separated by blanks; WordRuns gives for a piece the runs of letters     *)
(* that re.findall(r'\b[a-z]+\b') finds in its lower-case form.            *)
(***************************************************************************)
ENERGY_MAP ==
    << <<"high", {"energetic", "pumped", "excited", "hyper", "intense", "powerful", "upbeat"}>>,
       <<"medium", {"moderate", "balanced", "steady", "calm", "relaxed"}>>,
       <<"low", {"tired", "sleepy", "mellow", "peaceful", "quiet", "soft", "gentle"}>> >>

VALENCE_MAP ==
    << <<"positive", {"happy", "joyful", "cheerful", "uplifting", "bright", "optimistic", "fun"}>>,
       <<"negative", {"sad", "depressed", "melancholy", "dark", "gloomy", "angry", "frustrated"}>>,
       <<"neutral", {"contemplative", "thoughtful", "reflective", "nostalgic", "bittersweet"}>> >>

TEMPO_MAP ==
    << <<"fast", {"fast", "quick", "rapid", "danceable", "upbeat", "energetic"}>>,
       <<"medium", {"moderate", "steady", "walking", "medium"}>>,
       <<"slow", {"slow", "ballad", "chill", "ambient", "peaceful", "relaxed"}>> >>

GENRE_KEYWORDS ==
    {"rock", "pop", "hip-hop", "rap", "jazz", "classical", "electronic",
     "country", "folk", "blues", "reggae", "metal", "punk", "indie",
     "alternative", "r&b", "soul", "funk", "disco", "house", "techno"}

\* the stop words and the words of one or two letters among the runs below
stop_words == {"the", "feel", "and"}
ShortWords == {"r", "b"}

\* the pieces of a mood text, and the letter runs of each
WordRuns ==
    ("upbeat" :> <<"upbeat">>) @@ ("relaxed" :> <<"relaxed">>) @@
    ("peaceful" :> <<"peaceful">>) @@ ("steady" :> <<"steady">>) @@
    ("Happy" :> <<"happy">>) @@ ("sad" :> <<"sad">>) @@
    ("nostalgic" :> <<"nostalgic">>) @@ ("rock" :> <<"rock">>) @@
    ("hip-hop" :> <<"hip", "hop">>) @@ ("r&b" :> <<"r", "b">>) @@
    ("the" :> <<"the">>) @@ ("42" :> <<>>) @@ (Space :> <<>>)

MoodPieces == DOMAIN WordRuns

\* lines 74-91
ExtractWords(text) ==
    {w \in UNION {Range(WordRuns[text[i]]) : i \in DOMAIN text} :
        w \notin ShortWords /\ w \notin stop_words}

\* len(words.intersection(set(keywords))) of the k-th category
CategoryScore(words, keyword_map, k) == Cardinality(words \cap keyword_map[k][2])

\* max(scores, key=scores.get) read as the last of the best categories
FindBestMatchLast(words, keyword_map, default) ==
    IF \A k \in DOMAIN keyword_map : CategoryScore(words, keyword_map, k) = 0
    THEN default
    ELSE keyword_map[CHOOSE k \in DOMAIN keyword_map :
            \A o \in DOMAIN keyword_map :
                \/ CategoryScore(words, keyword_map, o) < CategoryScore(words, keyword_map, k)
                \/ (CategoryScore(words, keyword_map, o) = CategoryScore(words, keyword_map, k)
                    /\ o <= k)][1]

\* lines 109-119: max returns the first key of the largest score, in the
\* order the dict was written
FindBestMatch(words, keyword_map, default) ==
    IF \A k \in DOMAIN keyword_map : CategoryScore(words, keyword_map, k) = 0
    THEN default
    ELSE keyword_map[CHOOSE k \in DOMAIN keyword_map :
            \A o \in DOMAIN keyword_map :
                \/ CategoryScore(words, keyword_map, o) < CategoryScore(words, keyword_map, k)
                \/ (CategoryScore(words, keyword_map, o) = CategoryScore(words, keyword_map, k)
                    /\ o >= k)][1]

\* every word taken for a genre
DetectGenresAnyWord(words) == words

\* lines 105-107
DetectGenres(words) == words \cap GENRE_KEYWORDS

\* list(a set): its elements once each, in an order the set decides
Orders(S) == {q \in [1..Cardinality(S) -> S] : \A i, j \in DOMAIN q : q[i] = q[j] => i = j}

DefaultProfile ==
    [energy |-> "medium", valence |-> "neutral", tempo |-> "medium",
     genres |-> <<>>, keywords |-> <<>>, raw_text |-> <<>>]

MaxPieces == 3

MoodTexts(len) == UNION {[1..n -> MoodPieces] : n \in 0..len}

ParseInit ==
    /\ pText \in MoodTexts(MaxPieces)
    /\ pOut = <<>>
    /\ pPc = "call"
    /\ RankIdle /\ ScoreIdle
    /\ MonoIdle /\ TextIdle /\ ValIdle /\ FetchIdle /\ GenIdle

\* lines 50-72
Parse ==
    /\ pPc = "call"
    /\ IF Strip(pText) = <<>>
       THEN pOut' = DefaultProfile
       ELSE LET words == ExtractWords(pText)
            IN  \E gs \in Orders(DetectGenres(words)), ks \in Orders(words) :
                    pOut' = [energy   |-> FindBestMatch(words, ENERGY_MAP, "medium"),
                             valence  |-> FindBestMatch(words, VALENCE_MAP, "neutral"),
                             tempo    |-> FindBestMatch(words, TEMPO_MAP, "medium"),
                             genres   |-> gs,
                             keywords |-> ks,
                             raw_text |-> Strip(pText)]
    /\ pPc' = "done"
    /\ UNCHANGED <<pText, rankVars, scoreVars, monoVars, textVars, valVars, fetchVars,
                   genVars>>

ParseNext == Parse
SpecParse == ParseInit /\ [][ParseNext]_vars

\* C16: for every mood text, parse returns a profile with energy in {low,
\* medium, high}, valence in {negative, neutral, positive}, tempo in {slow,
\* medium, fast} and genres all from the genre vocabulary.
C16_ProfileInVocabulary ==
    pPc = "done" =>
        /\ pOut.energy \in {"low", "medium", "high"}
        /\ pOut.valence \in {"negative", "neutral", "positive"}
        /\ pOut.tempo \in {"slow", "medium", "fast"}
        /\ Range(pOut.genres) \subseteq GENRE_KEYWORDS

\* a text with a genre name, a piece without letters and a piece whose letter
\* runs are no genre: the genre alone is detected
C16_Witness ==
    /\ pPc = "done"
    /\ pText = <<"rock", "42", "hip-hop">>
    /\ pOut.genres = <<"rock">>
    /\ Cardinality(Range(pOut.keywords)) = 3

\* the category of a dimension that the claim names for a set of keywords
Picked(kw, keyword_map, default, cat) ==
    LET n(k) == Cardinality(kw \cap keyword_map[k][2])
    IN  IF \A k \in DOMAIN keyword_map : n(k) = 0
        THEN cat = default
        ELSE \E k \in DOMAIN keyword_map :
                /\ cat = keyword_map[k][1]
                /\ \A o \in DOMAIN keyword_map : n(o) <= n(k)
                /\ \A o \in 1..(k - 1) : n(o) < n(k)

\* C17: each of energy, valence and tempo is the category whose lexicon shares
\* most words with the extracted keywords, the first declared on a tie (high,
\* medium, low; positive, negative, neutral; fast, medium, slow), the default
\* (medium, neutral, medium) when none shares a word; a blank text gives the
\* all-default profile with no genres, no keywords and raw_text ''.
C17_BestCategory ==
    pPc = "done" =>
        /\ Picked(Range(pOut.keywords), ENERGY_MAP, "medium", pOut.energy)
        /\ Picked(Range(pOut.keywords), VALENCE_MAP, "neutral", pOut.valence)
        /\ Picked(Range(pOut.keywords), TEMPO_MAP, "medium", pOut.tempo)
        /\ <<ENERGY_MAP[1][1], ENERGY_MAP[2][1], ENERGY_MAP[3][1]>> = <<"high", "medium", "low">>
        /\ <<VALENCE_MAP[1][1], VALENCE_MAP[2][1], VALENCE_MAP[3][1]>>
              = <<"positive", "negative", "neutral">>
        /\ <<TEMPO_MAP[1][1], TEMPO_MAP[2][1], TEMPO_MAP[3][1]>> = <<"fast", "medium", "slow">>
        /\ (\A i \in DOMAIN pText : pText[i] = Space) => pOut = DefaultProfile

\* ties in two dimensions: one word of the high and one of the medium energy
\* lexicon, one of the fast and one of the slow tempo lexicon
C17_Witness ==
    /\ pPc = "done"
    /\ pText = <<"relaxed", "upbeat">>
    /\ pOut.energy = "high"
    /\ pOut.tempo = "fast"
    /\ pOut.valence = "neutral"

(***************************************************************************)
(* validate_rankings, rank.py lines 161-169, on lists a caller supplies.   *)
(* A record here has score [k, v] (k is num or nan, v in hundredths) and   *)
(* reason [ws, w]: w the words str.split() finds, ws telling that the      *)
(* string holds white space other than one blank between two words, so     *)
(* that '' is [FALSE, no words] and '   ' is [TRUE, no words].             *)
(***************************************************************************)
Reason(ws, w) == [ws |-> ws, w |-> w]
Words(n) == [i \in 1..n |-> "word"]
GoodMatch == Reason(FALSE, DefaultReason)
Compatibility == <<"compatibility">>

\* line 166 joining the words whatever their number
ValidReasonAlwaysJoined(reason) ==
    Reason(FALSE, PySliceTo(reason.w, MaxWords))

\* lines 165-166: the first 25 words joined by blanks when there are more,
\* else the string as it is, or the default when it is ''
ValidReason(reason) ==
    IF Len(reason.w) > MaxWords
    THEN Reason(FALSE, PySliceTo(reason.w, MaxWords))
    ELSE IF reason.w = <<>> /\ ~reason.ws THEN GoodMatch ELSE reason

\* factors[:-1] in place of factors[:3] for a list over the limit
ValidFactorsLastDropped(match_factors) ==
    IF match_factors = <<>> THEN Compatibility
    ELSE IF Len(match_factors) > MaxFactors THEN PySliceTo(match_factors, -1)
    ELSE match_factors

\* lines 167-168
ValidFactors(match_factors) ==
    PySliceTo(IF match_factors = <<>> THEN Compatibility ELSE match_factors, MaxFactors)

\* lines 163-168 for one record
ValidateOne(r) ==
    [pos |-> r.pos, track |-> r.track,
     score |-> Num(ClampFloat(r.score)),
     reason |-> ValidReason(r.reason),
     match_factors |-> ValidFactors(r.match_factors)]

ValidateRankings(rs) == [i \in DOMAIN rs |-> ValidateOne(rs[i])]

MaxRanked == 2

\* what a supplied record may hold besides its track: each field over its
\* values beside two fields within the bounds, and records with every field
\* outside them
SuppliedScores  == {ScoreOf("nan"), Num(-300), Num(750), Num(2500)}
SuppliedReasons ==
    {Reason(FALSE, <<>>), Reason(TRUE, <<>>), Reason(TRUE, Words(3)),
     Reason(FALSE, Words(MaxWords)), Reason(TRUE, Words(MaxWords + 1))}
SuppliedFactors == {SubSeq(FactorNames, 1, n) : n \in {0, 2, 5}}
SuppliedFields ==
    [score : SuppliedScores, reason : {Reason(TRUE, Words(3))},
     match_factors : {SubSeq(FactorNames, 1, 2)}]
    \cup [score : {Num(750)}, reason : SuppliedReasons,
          match_factors : {SubSeq(FactorNames, 1, 2)}]
    \cup [score : {Num(750)}, reason : {Reason(TRUE, Words(3))},
          match_factors : SuppliedFactors]
    \cup [score : {ScoreOf("nan"), Num(2500)},
          reason : {Reason(FALSE, <<>>), Reason(TRUE, Words(MaxWords + 1))},
          match_factors : {<<>>, FactorNames}]

\* the i-th record of a supplied list is about the i-th track of the call
TrackAt(i) ==
    [title |-> <<"Yellow">>, artist |-> <<"Coldplay">>, genre |-> "unknown",
     tags |-> <<>>, tempo |-> IF i % 2 = 1 THEN "fast" ELSE "slow",
     features |-> [energy |-> 50 + i, valence |-> 55]]

SuppliedLists(len) ==
    UNION {{[i \in 1..n |-> [pos |-> i, track |-> TrackAt(i), score |-> fs[i].score,
                             reason |-> fs[i].reason,
                             match_factors |-> fs[i].match_factors]] :
            fs \in [1..n -> SuppliedFields]} : n \in 0..len}

ValidateInit ==
    /\ vIn \in SuppliedLists(MaxRanked)
    /\ vOnce = <<>> /\ vTwice = <<>>
    /\ vPc = "call"
    /\ RankIdle /\ ScoreIdle
    /\ MonoIdle /\ TextIdle /\ ParseIdle /\ FetchIdle /\ GenIdle

\* the caller validates its list
ValidateFirst ==
    /\ vPc = "call"
    /\ vOnce' = ValidateRankings(vIn)
    /\ vPc' = "once"
    /\ UNCHANGED <<vIn, vTwice, rankVars, scoreVars, monoVars, textVars, parseVars, fetchVars,
                   genVars>>

\* and validates what it got
ValidateAgain ==
    /\ vPc = "once"
    /\ vTwice' = ValidateRankings(vOnce)
    /\ vPc' = "twice"
    /\ UNCHANGED <<vIn, vOnce, rankVars, scoreVars, monoVars, textVars, parseVars, fetchVars,
                   genVars>>

ValidateNext == ValidateFirst \/ ValidateAgain
SpecValidate == ValidateInit /\ [][ValidateNext]_vars

\* a record within the three bounds
InBounds(r) ==
    /\ r.score.k = "num" /\ 0 <= r.score.v /\ r.score.v <= ScoreMax
    /\ Len(r.reason.w) <= MaxWords
    /\ Len(r.match_factors) >= 1 /\ Len(r.match_factors) <= MaxFactors

\* same length, same tracks in the same order, every record within the bounds
\* and its score the clamped one
Repaired ==
    /\ Len(vOnce) = Len(vIn)
    /\ \A i \in DOMAIN vIn :
        /\ vOnce[i].track = vIn[i].track /\ vOnce[i].pos = vIn[i].pos
        /\ InBounds(vOnce[i])
        /\ vOnce[i].score.v =
              (IF vIn[i].score.k = "nan" THEN ScoreMax
               ELSE Max2(0, Min2(ScoreMax, vIn[i].score.v)))

\* C18 as stated: the list is repaired and every record already within the
\* bounds comes back with the score, reason and factors it had.
C18_BoundedUnchanged ==
    vPc # "call" /\ vPc # "idle" =>
        /\ Repaired
        /\ \A i \in DOMAIN vIn : InBounds(vIn[i]) => vOnce[i] = vIn[i]

\* C18: validate_rankings returns a list of the same length with the same
\* tracks in the same order, every score clamped to [0, 10], every reason of at
\* most 25 words and between 1 and 3 factors; a record already within these
\* bounds whose reason is not the empty string comes back unchanged.
C18_Repaired ==
    vPc # "call" /\ vPc # "idle" =>
        /\ Repaired
        /\ \A i \in DOMAIN vIn :
              (InBounds(vIn[i]) /\ vIn[i].reason # Reason(FALSE, <<>>)) => vOnce[i] = vIn[i]

\* a list of a record over every bound and a record within them, its reason
\* written with irregular white space
C18_Witness ==
    /\ vPc = "once"
    /\ Len(vIn) = 2
    /\ vIn[1].score = Num(2500) /\ Len(vIn[1].reason.w) > MaxWords
    /\ Len(vIn[1].match_factors) > MaxFactors
    /\ InBounds(vIn[2]) /\ vIn[2].reason = Reason(TRUE, Words(3))
    /\ vOnce[2] = vIn[2]
    /\ vOnce[1] # vIn[1]

\* C19: validate_rankings applied to its own result returns that result, track
\* by track, score, reason and match_factors included.
C19_Idempotent ==
    vPc = "twice" =>
        /\ Len(vTwice) = Len(vOnce)
        /\ \A i \in DOMAIN vOnce :
            /\ vTwice[i].track = vOnce[i].track
            /\ vTwice[i].score = vOnce[i].score
            /\ vTwice[i].reason = vOnce[i].reason
            /\ vTwice[i].match_factors = vOnce[i].match_factors

\* validated twice, a list whose first pass changed a score, cut a reason,
\* replaced an empty reason and cut a factor list
C19_Witness ==
    /\ vPc = "twice"
    /\ Len(vIn) = 2
    /\ vIn[1].score.k = "nan" /\ Len(vIn[1].reason.w) > MaxWords
    /\ vIn[2].reason = Reason(FALSE, <<>>) /\ Len(vIn[2].match_factors) > MaxFactors
    /\ vOnce[1] # vIn[1] /\ vOnce[2] # vIn[2]
    /\ vTwice = vOnce

(***************************************************************************)
(* sample_tracks, fetcher.py lines 43-82, called again and again by one    *)
(* caller with the same n_samples.  The disk is the cache directory (it    *)
(* exists or can be made, or mkdir fails) and the cache file (absent, a    *)
(* JSON list of rows, or something json.loads or _normalize rejects);      *)
(* writing the file fails on an unwritable directory.  The hub serves the  *)
(* slice, or only the stream, or nothing, call by call.                    *)
(***************************************************************************)
SlowBelow == 90
MidUpTo   == 130

Bpm(v) == [k |-> "num", v |-> v]
NoBpm  == [k |-> "none", v |-> 0]
Row(name, tempo) == [track_name |-> name, tempo |-> tempo]

\* lines 87-99
TempoBucket(bpm) ==
    IF bpm.k = "none" THEN "mid"
    ELSE IF bpm.v < SlowBelow THEN "slow"
    ELSE IF bpm.v <= MidUpTo THEN "mid"
    ELSE "fast"

\* lines 133-159: what the model keeps of a Track, title and tempo
Normalize(row) ==
    [title |-> IF row.track_name = "" THEN "Unknown Title" ELSE row.track_name,
     tempo |-> TempoBucket(row.tempo)]
NormalizeAll(rows) == [i \in DOMAIN rows |-> Normalize(rows[i])]

\* lines 172-221
FallbackRaw ==
    <<Row("Blinding Lights", Bpm(171)), Row("Yellow", Bpm(174)),
      Row("Shape of You", Bpm(96)), Row("Hotel California", Bpm(75)),
      Row("Nandemonaiya", Bpm(140))>>

\* the head of the train split of the dataset on the hub
DatasetRows == <<Row("Comedy", Bpm(87)), Row("", NoBpm), Row("Hold On", Bpm(130))>>

\* the cache file: none, json.dumps of a list of rows, or a file that
\* json.loads rejects (notjson) or whose document is no list of rows (notrows)
NoFile == [kind |-> "absent", rows |-> <<>>]
Dumps(rows) == [kind |-> "json", rows |-> rows]
Corrupt(kind) == [kind |-> kind, rows |-> <<>>]

\* one call: it raised, or returned these tracks; hub is what the hub did
Outcome20(hub, raised, ts) == [hub |-> hub, raised |-> raised, tracks |-> ts]

MaxSamples == 2
MaxCalls   == 3

Hub == {"slice", "stream", "down"}

FetchInit ==
    /\ fN \in 1..MaxSamples
    /\ fCache \in {NoFile, Corrupt("notjson"), Corrupt("notrows"), Dumps(<<>>),
                   Dumps(FallbackRaw), Dumps(SubSeq(DatasetRows, 1, fN))}
    /\ fDisk \in [dir : {"ok", "blocked"}, writable : BOOLEAN]
    /\ fCalls = <<>>
    /\ RankIdle /\ ScoreIdle
    /\ MonoIdle /\ TextIdle /\ ParseIdle /\ ValIdle /\ GenIdle

\* lines 43-82
SampleTracks ==
    /\ Len(fCalls) < MaxCalls
    /\ \E hub \in Hub :
        IF fDisk.dir = "blocked"
        THEN \* line 45: mkdir raises, outside every try
             /\ fCalls' = Append(fCalls, Outcome20(hub, TRUE, <<>>))
             /\ fCache' = fCache
        ELSE IF fCache.kind = "json"
        THEN \* lines 49-52
             /\ fCalls' = Append(fCalls, Outcome20(hub, FALSE, NormalizeAll(fCache.rows)))
             /\ fCache' = fCache
        ELSE \* lines 57-82
             LET raw_rows == IF hub = "down" THEN FallbackRaw
                             ELSE SubSeq(DatasetRows, 1, Min2(fN, Len(DatasetRows)))
             IN  /\ fCache' = IF fDisk.writable THEN Dumps(raw_rows) ELSE fCache
                 /\ fCalls' = Append(fCalls, Outcome20(hub, FALSE, NormalizeAll(raw_rows)))
    /\ UNCHANGED <<fN, fDisk, rankVars, scoreVars, monoVars, textVars, parseVars, valVars,
                   genVars>>

FetchNext == SampleTracks
SpecFetch == FetchInit /\ [][FetchNext]_vars

\* C20: for a fixed n_samples, whatever the cache on disk (absent, valid,
\* corrupt, unwritable) and whatever the hub does from call to call, every call
\* of sample_tracks returns without raising and every later call returns the
\* track sequence of the first.
C20_Idempotent ==
    \A i \in DOMAIN fCalls :
        /\ ~fCalls[i].raised
        /\ fCalls[i].tracks = fCalls[1].tracks

(***************************************************************************)
(* ModelManager.generate and generate_json, models.py lines 222-245, over  *)
(* a primary client and an optional fallback client.  A client call        *)
(* returns ModelResponse(success=True, data={"text": text}), returns a     *)
(* response with success=False, or raises.  The text is a string of        *)
(* tokens, or a string of brackets nested deeper than json.loads can       *)
(* recurse, or a JSON value of the provider's reply that is no string      *)
(* (None, or a number).                                                    *)
(***************************************************************************)
Str(t) == [k |-> "str", t |-> t]
ClientTexts ==
    {Str(<<>>), Str(<<Obj>>), Str(<<Arr>>), Str(<<Word, Score75>>),
     [k |-> "deep", t |-> <<>>], [k |-> "number", t |-> <<>>], [k |-> "none", t |-> <<>>]}

ClientOutcomes ==
    {[kind |-> "ok", text |-> x] : x \in ClientTexts}
    \cup {[kind |-> "fail", text |-> Str(<<>>)], [kind |-> "raise", text |-> Str(<<>>)]}
NoClient == [kind |-> "none", text |-> Str(<<>>)]

\* ensure_json raises: str.strip of a number (line 127), RecursionError of
\* json.loads (line 134, where only JSONDecodeError is caught)
EnsureJsonRaises(text) == text.k \in {"number", "deep"}
\* not response_text (line 127) for None, else the tiers on the string
EnsureJsonOf(text) == IF text.k = "none" THEN EmptyMapping ELSE EnsureJson(text.t).val

\* ModelResponse as the model keeps it: success and data
ModelResponse(success, data) == [success |-> success, data |-> data]

GenInit ==
    /\ gIn \in [primary : ClientOutcomes, fallback : ClientOutcomes \cup {NoClient}]
    /\ gCalls = <<>>
    /\ gResp = <<>> /\ gJson = <<>>
    /\ gPc = "start"
    /\ RankIdle /\ ScoreIdle
    /\ MonoIdle /\ TextIdle /\ ParseIdle /\ ValIdle /\ FetchIdle

\* line 224: an exception of the client leaves generate and generate_json
CallPrimary ==
    /\ gPc = "start"
    /\ gCalls' = Append(gCalls, "primary")
    /\ IF gIn.primary.kind = "raise"
       THEN gPc' = "raised" /\ gResp' = gResp
       ELSE /\ gPc' = "primary"
            /\ gResp' = ModelResponse(gIn.primary.kind = "ok", gIn.primary.text)
    /\ UNCHANGED <<gIn, gJson, rankVars, scoreVars, monoVars, textVars, parseVars, valVars,
                   fetchVars>>

\* lines 226-227
CallFallback ==
    /\ gPc = "primary"
    /\ ~gResp.success /\ gIn.fallback # NoClient
    /\ gCalls' = Append(gCalls, "fallback")
    /\ IF gIn.fallback.kind = "raise"
       THEN gPc' = "raised" /\ gResp' = gResp
       ELSE /\ gPc' = "generated"
            /\ gResp' = ModelResponse(gIn.fallback.kind = "ok", gIn.fallback.text)
    /\ UNCHANGED <<gIn, gJson, rankVars, scoreVars, monoVars, textVars, parseVars, valVars,
                   fetchVars>>

\* line 229
ReturnPrimary ==
    /\ gPc = "primary"
    /\ gResp.success \/ gIn.fallback = NoClient
    /\ gPc' = "generated"
    /\ UNCHANGED <<gIn, gCalls, gResp, gJson, rankVars, scoreVars, monoVars, textVars,
                   parseVars, valVars, fetchVars>>

\* lines 235-245: the except clause builds ModelResponse(success=False,
\* error=...) without the required data argument, a TypeError that leaves
\* generate_json
FinishJson ==
    /\ gPc = "generated"
    /\ IF gResp.success
       THEN IF EnsureJsonRaises(gResp.data)
            THEN gPc' = "raised" /\ gJson' = gJson
            ELSE gPc' = "done" /\ gJson' = ModelResponse(TRUE, EnsureJsonOf(gResp.data))
       ELSE gPc' = "done" /\ gJson' = ModelResponse(FALSE, EmptyMapping)
    /\ UNCHANGED <<gIn, gCalls, gResp, rankVars, scoreVars, monoVars, textVars, parseVars,
                   valVars, fetchVars>>

GenNext == CallPrimary \/ CallFallback \/ ReturnPrimary \/ FinishJson
SpecGen == GenInit /\ [][GenNext]_vars

\* generate has returned to generate_json
Generated == gPc = "generated" \/ (gPc \in {"done", "raised"} /\ gResp # <<>> /\
                                   ~(gCalls = <<"primary", "fallback">> /\ gIn.fallback.kind = "raise"))

\* the primary client is invoked once, the fallback once exactly when the
\* primary's response is a failure and a fallback is configured, and generate
\* returns the response of the last client invoked
GenerateContract ==
    /\ gPc # "start" => gCalls[1] = "primary"
    /\ Len(gCalls) <= 2
    /\ Len(gCalls) = 2 => gCalls[2] = "fallback"
    /\ gPc \in {"generated", "done"} =>
        /\ (Len(gCalls) = 2) <=> (gIn.primary.kind = "fail" /\ gIn.fallback # NoClient)
        /\ LET last == IF Len(gCalls) = 2 THEN gIn.fallback ELSE gIn.primary
           IN  gResp = ModelResponse(last.kind = "ok", last.text)
    /\ (gPc = "raised" /\ Len(gCalls) = 2) => gIn.primary.kind = "fail"

\* C21: generate invokes the primary once, the fallback once exactly when the
\* primary failed and a fallback is configured, returns the response of the
\* fallback when it was invoked and of the primary otherwise, and
\* generate_json reports success exactly when the response it got from
\* generate is successful.
C21_PrimaryFallback ==
    /\ GenerateContract
    /\ (Generated /\ gPc # "generated") =>
            gPc = "done" /\ gJson.success = gResp.success

(***************************************************************************)
(* rank_and_explain with a top_k of zero or below                          *)
(***************************************************************************)
MaxNegTracks == 4
MaxNegTopK   == 2

\* line 30: top_k is any int; here the ones that are not positive
NegTopKs == (0 - MaxNegTopK)..0

NegInit ==
    /\ mood \in RankMoods
    /\ tracks \in TrackLists(MaxNegTracks)
    /\ top_k \in NegTopKs
    /\ model_manager \in {"present", None}
    /\ pc = "start"
    /\ bases = <<>> /\ candidates = <<>> /\ ranked = <<>> /\ resps = <<>>
    /\ calls = <<>> /\ result = <<>>
    /\ ScoreIdle /\ ExtIdle

SpecNeg == NegInit /\ [][Next]_vars

\* C22: with a top_k of zero or below, a call that returns has returned the
\* empty list and has not invoked the model: the returned length never
\* exceeds max(top_k, 0)
C22_NonPositiveTopK ==
    (pc = "done" /\ top_k <= 0) =>
        /\ result = <<>>
        /\ calls = <<>>
        /\ Len(result) <= Max2(top_k, 0)

\* a call with top_k = -1 over four tracks that returned a record
C22_NonEmpty == pc = "done" /\ top_k < 0 /\ result # <<>>

(***************************************************************************)
(* The order of a profile's genres and keywords.  parse builds keywords    *)
(* with list(words) of a set and genres with list() of the intersection   *)
(* of that set with GENRE_KEYWORDS (mood.py lines 65-72, 105-107): both    *)
(* lists hold no word twice, in the order the set iteration gives.         *)
(***************************************************************************)
MaxPermLen    == 2
MaxPermTracks == 2

PermGenres   == {"rock", "indie", "pop"}
PermKeywords == {"sun", "happy"}

\* the lists of at most len words of S, no word twice
Lists(S, len) ==
    UNION {{q \in [1..n -> S] : \A i, j \in 1..n : q[i] = q[j] => i = j} : n \in 0..len}

\* q holds the elements of p in another (or the same) order
IsPermutation(p, q) ==
    /\ Len(p) = Len(q)
    /\ \E f \in [DOMAIN p -> DOMAIN p] :
          /\ \A i, j \in DOMAIN p : f[i] = f[j] => i = j
          /\ q = [i \in DOMAIN p |-> p[f[i]]]

PermMoods(len) ==
    [energy : {"high"}, valence : {"positive"}, tempo : {"fast"},
     genres : Lists(PermGenres, len), keywords : Lists(PermKeywords, len)]

PermTracks ==
    {[title |-> <<"Sunshine">>, artist |-> <<"Coldplay">>, genre |-> "indie",
      tags |-> <<"calm">>, tempo |-> "slow", features |-> [energy |-> 30, valence |-> 30]],
     [title |-> <<"Yellow">>, artist |-> <<"Coldplay">>, genre |-> "rock",
      tags |-> <<"happy">>, tempo |-> "slow", features |-> [energy |-> 30, valence |-> 30]],
     [title |-> <<"Happy">>, artist |-> <<"Coldplay">>, genre |-> "disco",
      tags |-> <<>>, tempo |-> "slow", features |-> <<>>]}

PermTrackLists(n) == UNION {[1..m -> PermTracks] : m \in 0..n}

\* the ways a call of rank_and_explain runs without any AI result: the model
\* manager is missing, or every call fails or raises
DegradedModes ==
    {[mm |-> None, resp |-> NoCall],
     [mm |-> "present", resp |-> Failed],
     [mm |-> "present", resp |-> Raised]}

\* rank.py lines 32-48 with every iteration ending in the fallback record
DegradedRanking(m, ts, k, mode) ==
    IF ts = <<>> THEN <<>>
    ELSE LET c == Shortlist(m, ts, k)
             r == [i \in DOMAIN c |-> LoopBody(mode.mm, c[i], mode.resp).val]
         IN  Returned(r, k)

PermInit ==
    /\ mIn \in {p \in [a : PermMoods(MaxPermLen), b : PermMoods(MaxPermLen),
                       tracks : PermTrackLists(MaxPermTracks), top_k : 1..MaxPermTracks] :
                    /\ IsPermutation(p.a.genres, p.b.genres)
                    /\ IsPermutation(p.a.keywords, p.b.keywords)}
    /\ mOut = <<>>
    /\ mPc = "call"
    /\ RankIdle /\ ScoreIdle
    /\ TextIdle /\ ParseIdle /\ ValIdle /\ FetchIdle /\ GenIdle

NoRanking == [a |-> <<>>, b |-> <<>>]

\* _calculate_base_score of every track, under either profile
ScorePermuted ==
    /\ mPc = "call"
    /\ mOut' = [scores |-> [a |-> [i \in DOMAIN mIn.tracks |-> CalculateBaseScore(mIn.a, mIn.tracks[i])],
                            b |-> [i \in DOMAIN mIn.tracks |-> CalculateBaseScore(mIn.b, mIn.tracks[i])]],
                ranking |-> NoRanking]
    /\ mPc' = "scored"
    /\ UNCHANGED <<mIn, rankVars, scoreVars, textVars, parseVars, valVars, fetchVars,
                   genVars>>

\* rank_and_explain in degraded mode, under either profile
RankPermuted ==
    /\ mPc = "scored"
    /\ \E mode \in DegradedModes :
          mOut' = [mOut EXCEPT !.ranking =
                      [a |-> DegradedRanking(mIn.a, mIn.tracks, mIn.top_k, mode),
                       b |-> DegradedRanking(mIn.b, mIn.tracks, mIn.top_k, mode)]]
    /\ mPc' = "done"
    /\ UNCHANGED <<mIn, rankVars, scoreVars, textVars, parseVars, valVars, fetchVars,
                   genVars>>

PermNext == ScorePermuted \/ RankPermuted
SpecPerm == PermInit /\ [][PermNext]_vars

\* C23: two profiles that differ only by the order of their genres and of
\* their keywords give every track the same base score, and the same
\* degraded-mode ranking.
C23_OrderIndependent ==
    /\ mPc \in {"scored", "done"} => mOut.scores.a = mOut.scores.b
    /\ mPc = "done" => mOut.ranking.a = mOut.ranking.b

\* both lists in another order, a track the genres and the keywords both
\* contribute to, two records returned
C23_Witness ==
    /\ mPc = "done"
    /\ mIn.a.genres # mIn.b.genres
    /\ mIn.a.keywords # mIn.b.keywords
    /\ Len(mOut.ranking.a) = 2
    /\ \E i \in DOMAIN mIn.tracks :
          /\ MatchGenres(mIn.a.genres, mIn.tracks[i].genre) = GenreFamily
          /\ MatchKeywords(mIn.a.keywords, mIn.tracks[i]) > 0
          /\ mOut.scores.a[i] < ScoreMax

====
